---- MODULE Spec2Model ----
(***************************************************************************)
(* A model of the PGS (.sup) reader of vobsubocr: the segment loop of      *)
(* pgs::run, the header reader and the four typed segment decoders of      *)
(* pgs::segment, and the run-length decoder pgs::rle::decode_rle.          *)
(*                                                                         *)
(* The input file is a sequence of bytes (0..255); the stream position is  *)
(* 0-based as in Rust, so byte k of the stream is file[k+1].               *)
(***************************************************************************)
EXTENDS Integers, Sequences, FiniteSets, TLC

VARIABLES
    file,               \* the bytes of opt.input
    pos,                \* reader.stream_position()
    pc,                 \* "header" | "payload" | "done": position in run's loop
    hdr,                \* segment_header of the current iteration
    seg,                \* the value the typed decoder returned (pcs/wds/pds/ods)
    vobsub,             \* Vec<PreprocessedVobSubtitle>: the time spans pushed
    segments,           \* Vec<SegmentHeader>
    segment_count,
    display_set_count,
    result,             \* "running" | "Ok" | "Err" | "Panic": how run ended
    err,                \* the Error value run returned
    data,               \* decode_rle: the input slice
    c,                  \* decode_rle: Cursor position
    output,             \* decode_rle: output vector
    rle_pc,             \* "loop" | "done" | "panic"
    u24_src,            \* u24: what the value is made from (a u32 or 3 bytes)
    u24_val,            \* u24: the 3-byte value
    u24_out,            \* u24: the result of to_u32
    u24_pc              \* "start" | "made" | "read"

runVars == <<file, pos, pc, hdr, seg, vobsub, segments, segment_count,
             display_set_count, result, err>>
rleVars == <<data, c, output, rle_pc>>
u24Vars == <<u24_src, u24_val, u24_out, u24_pc>>
vars == <<file, pos, pc, hdr, seg, vobsub, segments, segment_count,
          display_set_count, result, err, data, c, output, rle_pc,
          u24_src, u24_val, u24_out, u24_pc>>

(***************************************************************************)
(* Program constants.                                                      *)
(***************************************************************************)
MAGIC_NUMBER == <<80, 71>>          \* [0x50, 0x47]
PDS == 20                           \* 0x14
ODS == 21                           \* 0x15
PCS == 22                           \* 0x16
WDS == 23                           \* 0x17
END == 128                          \* 0x80
HEADER_LEN == 13
PCS_LEN == 11
WDS_LEN == 10
ODS_HEADER == 11
WIN_INFO_LEN == 8
CROPPING_INFO_LEN == 8

(***************************************************************************)
(* Integer codec.                                                          *)
(***************************************************************************)
u16_from_be_bytes(b) == b[1] * 256 + b[2]

u32_from_be_bytes(b) == ((b[1] * 256 + b[2]) * 256 + b[3]) * 256 + b[4]

\* u24::to_u32: u32::from_be_bytes([0, a, b, c])
to_u32(v) == u32_from_be_bytes(<<0, v[1], v[2], v[3]>>)

\* u24::from_u32: the three LOW-order bytes of n in little-endian order
from_u32(n) == <<n % 256, (n \div 256) % 256, (n \div 65536) % 256>>

(***************************************************************************)
(* Errors.  Error::String carries only a message; the header reader        *)
(* formats the stream position into its message.                           *)
(***************************************************************************)
NoError == [kind |-> "none", msg |-> "", stream_pos |-> -1]

IoError == [kind |-> "IoError", msg |-> "UnexpectedEof", stream_pos |-> -1]

StringError(m) == [kind |-> "String", msg |-> m, stream_pos |-> -1]

\* read_exact: n bytes at stream position p, or UnexpectedEof
can_read(f, p, n) == p + n <= Len(f)

read_bytes(f, p, n) == SubSeq(f, p + 1, p + n)

\* a failed read_exact has consumed the stream to its end
EofFailed(f) == [st |-> "Err", pos |-> Len(f), val |-> [kind |-> "None"], err |-> IoError]

Failed(e, p) == [st |-> "Err", pos |-> p, val |-> [kind |-> "None"], err |-> e]

Panicked(p) == [st |-> "Panic", pos |-> p, val |-> [kind |-> "None"], err |-> NoError]

Decoded(p, v) == [st |-> "Ok", pos |-> p, val |-> v, err |-> NoError]

(***************************************************************************)
(* SegmentHeader                                                           *)
(***************************************************************************)
\* a variant of presentation_time that rounds up
presentation_time_ceil(h) == h.pts \div 90 + (IF h.pts % 90 = 0 THEN 0 ELSE 1)

presentation_time(h) == h.pts \div 90

\* The message reports the position AFTER the 13 header bytes were read.
invalid_magic_pos(p) == p + HEADER_LEN

read_header(f, p) ==
    IF ~can_read(f, p, HEADER_LEN) THEN EofFailed(f)
    ELSE LET header_buf == read_bytes(f, p, HEADER_LEN) IN
         IF SubSeq(header_buf, 1, 2) # MAGIC_NUMBER
         THEN Failed([kind |-> "String", msg |-> "MAGIC_NUMBER missing",
                      stream_pos |-> invalid_magic_pos(p)], p + HEADER_LEN)
         ELSE Decoded(p + HEADER_LEN,
                      [pts |-> u32_from_be_bytes(SubSeq(header_buf, 3, 6)),
                       dts |-> u32_from_be_bytes(SubSeq(header_buf, 7, 10)),
                       type_code |-> header_buf[11],
                       size |-> u16_from_be_bytes(SubSeq(header_buf, 12, 13))])

\* a variant of sg_type whose last arm catches every other code
sg_type_catch_all(h) ==
    CASE h.type_code = PDS -> "Pds"
      [] h.type_code = ODS -> "Ods"
      [] h.type_code = PCS -> "Pcs"
      [] h.type_code = WDS -> "Wds"
      [] OTHER -> "End"

\* SegmentHeader::sg_type is called by run but is not part of the sources;
\* it is modelled from the specification's dispatcher.
sg_type(h) ==
    CASE h.type_code = PDS -> "Pds"
      [] h.type_code = ODS -> "Ods"
      [] h.type_code = PCS -> "Pcs"
      [] h.type_code = WDS -> "Wds"
      [] h.type_code = END -> "End"
      [] OTHER -> "Invalid"

(***************************************************************************)
(* Composition segment                                                     *)
(***************************************************************************)
composition_state_ok(b) == b \in {0, 64, 128}

\* a variant of win_info_len that forgets the cropping rectangle
win_info_len_plain(flag) == WIN_INFO_LEN

win_info_len(flag) ==
    IF flag = 64 THEN WIN_INFO_LEN + CROPPING_INFO_LEN ELSE WIN_INFO_LEN

read_window_info(f, p) ==
    IF ~can_read(f, p, WIN_INFO_LEN) THEN EofFailed(f)
    ELSE LET win_info_buf == read_bytes(f, p, WIN_INFO_LEN)
             object_cropped_flag == win_info_buf[4]
             info == [object_id |-> u16_from_be_bytes(SubSeq(win_info_buf, 1, 2)),
                      window_id |-> win_info_buf[3],
                      object_cropped_flag |-> object_cropped_flag]
         IN IF object_cropped_flag # 0 /\ object_cropped_flag # 64
            THEN Failed(StringError("TODO object_cropped_flag"), p + WIN_INFO_LEN)
            ELSE IF object_cropped_flag = 64
                 THEN IF ~can_read(f, p + WIN_INFO_LEN, CROPPING_INFO_LEN)
                      THEN EofFailed(f)
                      ELSE Decoded(p + win_info_len(object_cropped_flag), info)
                 ELSE Decoded(p + win_info_len(object_cropped_flag), info)

RECURSIVE read_composition_objects(_, _, _, _)
read_composition_objects(f, p, n, acc) ==
    IF n = 0 THEN Decoded(p, acc)
    ELSE LET r == read_window_info(f, p) IN
         IF r.st # "Ok" THEN r
         ELSE read_composition_objects(f, r.pos, n - 1, Append(acc, r.val))

read_pcs(f, p) ==
    IF ~can_read(f, p, PCS_LEN) THEN EofFailed(f)
    ELSE LET pcs_buf == read_bytes(f, p, PCS_LEN)
             frame_rate == pcs_buf[5]
             palette_update_flag == pcs_buf[9]
             number_of_composition_objects == pcs_buf[11]
         IN IF frame_rate # 16 THEN Panicked(p + PCS_LEN)
            ELSE IF ~composition_state_ok(pcs_buf[8])
            THEN Failed(StringError("invalid value for CompositionState"), p + PCS_LEN)
            ELSE IF palette_update_flag # 0 /\ palette_update_flag # 128
            THEN Failed(StringError("TODO palette_update_flag"), p + PCS_LEN)
            ELSE LET r == read_composition_objects(f, p + PCS_LEN,
                                                   number_of_composition_objects, <<>>)
                 IN IF r.st # "Ok" THEN r
                    ELSE Decoded(r.pos,
                           [kind |-> "Pcs",
                            composition_state |-> pcs_buf[8],
                            palette_update_flag |-> palette_update_flag,
                            composition_objects |-> r.val])

(***************************************************************************)
(* Window segment: one fixed 10-byte read, whatever the header's size.     *)
(***************************************************************************)
read_wds(f, p) ==
    IF ~can_read(f, p, WDS_LEN) THEN EofFailed(f)
    ELSE LET wds_buf == read_bytes(f, p, WDS_LEN) IN
         Decoded(p + WDS_LEN,
                 [kind |-> "Wds", number_of_windows |-> wds_buf[1],
                  window_id |-> wds_buf[2]])

(***************************************************************************)
(* Palette segment                                                         *)
(***************************************************************************)
palette_entry(pds_buf, idx) ==
    LET offset == 2 + idx * 5 IN
    <<pds_buf[offset + 1], pds_buf[offset + 2], pds_buf[offset + 3],
      pds_buf[offset + 4], pds_buf[offset + 5]>>

\* assert_eq!((nb_palette_entry * 5) + 2, segments_size) panics on a remainder
pds_remainder(p) == Panicked(p)

read_pds(f, p, segments_size) ==
    IF ~can_read(f, p, segments_size) THEN EofFailed(f)
    ELSE LET pds_buf == read_bytes(f, p, segments_size) IN
         \* pds_buf[0], pds_buf[1] index out of bounds
         IF segments_size < 2 THEN Panicked(p + segments_size)
         ELSE LET nb_palette_entry == (segments_size - 2) \div 5 IN
              IF nb_palette_entry * 5 + 2 # segments_size
              THEN pds_remainder(p + segments_size)
              ELSE Decoded(p + segments_size,
                     [kind |-> "Pds", palette_id |-> pds_buf[1],
                      palette_version_number |-> pds_buf[2],
                      palette_entries |->
                         [i \in 1..nb_palette_entry |-> palette_entry(pds_buf, i - 1)]])

(***************************************************************************)
(* Object segment                                                          *)
(***************************************************************************)
last_in_sequence_flag_ok(b) == b \in {64, 128, 192}

\* assert!(ODS_HEADER + data_size == segments_size) panics on a mismatch
ods_mismatch(p) == Panicked(p)

read_ods(f, p, segments_size) ==
    IF ~can_read(f, p, ODS_HEADER) THEN EofFailed(f)
    ELSE LET ods_buf == read_bytes(f, p, ODS_HEADER)
             object_data_lenght == to_u32(SubSeq(ods_buf, 5, 7))
             data_size == object_data_lenght - 4
             data_cursor == p + ODS_HEADER
         IN IF ~last_in_sequence_flag_ok(ods_buf[4])
            THEN Failed(StringError("LastInSequenceFlag parsing error"), data_cursor)
            \* data_size - 4 below zero: overflow panic with overflow checks;
            \* without them the wrapped size fails the assert or the
            \* allocation of vec![0; data_size]: a panic in every build
            ELSE IF object_data_lenght < 4 THEN Panicked(data_cursor)
            ELSE IF ODS_HEADER + data_size # segments_size
            THEN ods_mismatch(data_cursor)
            ELSE IF ~can_read(f, data_cursor, data_size) THEN EofFailed(f)
            ELSE Decoded(data_cursor + data_size,
                   [kind |-> "Ods",
                    object_id |-> u16_from_be_bytes(SubSeq(ods_buf, 1, 2)),
                    last_in_sequence_flag |-> ods_buf[4],
                    object_data_lenght |-> object_data_lenght,
                    object_data_seek |-> data_cursor,
                    object_data_len |-> data_size])

(***************************************************************************)
(* decode_rle: one iteration of the loop per step.  Every read is          *)
(* c.read_u8().unwrap(): a read at the end of the input panics.            *)
(***************************************************************************)
is_color(byte) == byte \div 128 = 1

\* a variant of is_long without the mask: (byte >> 6) == 1
is_long_unmasked(byte) == byte \div 64 = 1

is_long(byte) == (byte \div 64) % 2 = 1

Rep(n, x) == [i \in 1..n |-> x]

\* the pixel pushed for a non-zero first byte: output.push(1)
literal_pixel(b0) == 1

\* a variant of eol_step with the push of rle.rs line 27 enabled
eol_step_push(cur, out) == [st |-> "loop", c |-> cur + 2, output |-> Append(out, 2)]

\* second byte 0x00: `continue` with nothing pushed
eol_step(cur, out) == [st |-> "loop", c |-> cur + 2, output |-> out]

\* BigEndian::read_u16(&[len_u8, len2_u8])
long_len(len_u8, len2_u8) == len_u8 * 256 + len2_u8

rle_panic(cur, out) == [st |-> "panic", c |-> cur, output |-> out]

\* the body of the loop from the first read on, with cur < Len(d)
rle_iter(d, cur, out) ==
    LET n == Len(d)
        b0 == d[cur + 1]
    IN  IF b0 # 0
        THEN [st |-> "loop", c |-> cur + 1, output |-> Append(out, literal_pixel(b0))]
        ELSE IF cur + 1 >= n THEN rle_panic(cur + 1, out)
        ELSE LET info == d[cur + 2] IN
             IF info = 0 THEN eol_step(cur, out)
             ELSE LET big_len == is_long(info)
                      len_u8 == info % 64
                      p1 == cur + 2
                  IN  IF big_len /\ p1 >= n THEN rle_panic(p1, out)
                      ELSE LET len == IF big_len THEN long_len(len_u8, d[p1 + 1])
                                      ELSE len_u8
                               p2 == IF big_len THEN p1 + 1 ELSE p1
                           IN  IF is_color(info) /\ p2 >= n THEN rle_panic(p2, out)
                               ELSE LET color == IF is_color(info) THEN d[p2 + 1] ELSE 0
                                    IN  [st |-> "loop",
                                         c |-> IF is_color(info) THEN p2 + 1 ELSE p2,
                                         output |-> out \o Rep(len, color)]

\* the whole call: iterate until the cursor reaches the end or a read panics
RECURSIVE decode_rle(_, _, _)
decode_rle(d, cur, out) ==
    IF cur >= Len(d) THEN [st |-> "done", c |-> cur, output |-> out]
    ELSE LET r == rle_iter(d, cur, out) IN
         IF r.st = "panic" THEN r ELSE decode_rle(d, r.c, r.output)

MaxRleLen == 4

RleBytes == {0, 2, 7, 9, 65, 133, 197}     \* 0x41, 0x85, 0xC5

RleInputs == UNION { [1..n -> RleBytes] : n \in 0..MaxRleLen }

RleInit ==
    /\ data \in RleInputs
    /\ c = 0
    /\ output = <<>>
    /\ rle_pc = "loop"

\* if c.position() >= data_len { break; }
RleBreak ==
    /\ rle_pc = "loop"
    /\ c >= Len(data)
    /\ rle_pc' = "done"
    /\ UNCHANGED <<data, c, output>>

RleIter ==
    /\ rle_pc = "loop"
    /\ c < Len(data)
    /\ LET r == rle_iter(data, c, output) IN
       /\ rle_pc' = r.st
       /\ c' = r.c
       /\ output' = r.output
    /\ UNCHANGED data

(***************************************************************************)
(* The End arm of run's match: one display set per End segment, timed by   *)
(* the End segment's own header.                                           *)
(***************************************************************************)
end_time_span(h) ==
    LET time == presentation_time(h) IN
    [start |-> time, end |-> time + 1000]

(***************************************************************************)
(* Input files: concatenations of at most MaxSegs segments of SegPool.     *)
(***************************************************************************)
MaxSegs == 2

be16(n) == <<n \div 256, n % 256>>

be24(n) == <<n \div 65536, (n \div 256) % 256, n % 256>>

be32(n) == <<n \div 16777216, (n \div 65536) % 256, (n \div 256) % 256, n % 256>>

RECURSIVE Flatten(_)
Flatten(ss) == IF ss = <<>> THEN <<>> ELSE Head(ss) \o Flatten(Tail(ss))

SegHeader(magic, pts, type_code, size) ==
    magic \o be32(pts) \o be32(0) \o <<type_code>> \o be16(size)

CompositionObject(flag) ==
    <<0, 1, 0, flag, 0, 16, 0, 32>>
      \o (IF flag = 64 THEN <<0, 0, 0, 0, 0, 8, 0, 8>> ELSE <<>>)

PcsPayload(state, flags) ==
    <<7, 128, 4, 56, 16, 0, 1, state, 0, 0, Len(flags)>>
      \o Flatten([i \in 1..Len(flags) |-> CompositionObject(flags[i])])

WindowEntry(id) == <<id, 0, 16, 0, 32, 0, 8, 0, 8>>

OdsPayload(object_id, flag, declared, bitmap) ==
    be16(object_id) \o <<0, flag>> \o be24(declared) \o <<0, 8, 0, 8>> \o bitmap

SegPool ==
    << \* 1: Composition, EpochStart, no object, payload_size 11
       SegHeader(MAGIC_NUMBER, 90000, PCS, 11) \o PcsPayload(128, <<>>),
       \* 2: Composition, Normal, one object, payload_size 11 + 8
       SegHeader(MAGIC_NUMBER, 90089, PCS, 19) \o PcsPayload(0, <<0>>),
       \* 3: Composition, EpochStart, no object, but payload_size 19:
       \*    the object records do not fill the payload
       SegHeader(MAGIC_NUMBER, 90000, PCS, 19) \o PcsPayload(128, <<>>)
           \o <<0, 0, 0, 0, 0, 0, 0, 0>>,
       \* 4: Composition with a cropped object, payload_size 11 + 16
       SegHeader(MAGIC_NUMBER, 90000, PCS, 27) \o PcsPayload(128, <<64>>),
       \* 5: Composition with an illegal crop flag
       SegHeader(MAGIC_NUMBER, 90000, PCS, 19) \o PcsPayload(128, <<32>>),
       \* 6: Window, one entry, payload_size 1 + 9
       SegHeader(MAGIC_NUMBER, 90000, WDS, 10) \o <<1>> \o WindowEntry(0),
       \* 7: Window, two entries, payload_size 1 + 2 * 9
       SegHeader(MAGIC_NUMBER, 90000, WDS, 19) \o <<2>> \o WindowEntry(0)
           \o WindowEntry(1),
       \* 8: Palette, payload_size 2 (k = 0)
       SegHeader(MAGIC_NUMBER, 90000, PDS, 2) \o <<3, 0>>,
       \* 9: Palette, payload_size 2 + 5 * 2 (k = 2)
       SegHeader(MAGIC_NUMBER, 90000, PDS, 12)
           \o <<3, 0, 1, 16, 128, 128, 255, 2, 235, 128, 128, 0>>,
       \* 10: Palette, payload_size 2 + 5 + 3 (r = 3)
       SegHeader(MAGIC_NUMBER, 90000, PDS, 10)
           \o <<3, 0, 1, 16, 128, 128, 255, 9, 9, 9>>,
       \* 11: Object, FirstAndLast, declared 4 + 2, payload_size 11 + 2
       SegHeader(MAGIC_NUMBER, 90000, ODS, 13) \o OdsPayload(1, 192, 6, <<7, 9>>),
       \* 12: Object, FirstAndLast, declared 4 + 3 but payload_size 11 + 2
       SegHeader(MAGIC_NUMBER, 90000, ODS, 13) \o OdsPayload(1, 192, 7, <<7, 9>>),
       \* 13: Object, FirstAndLast, declared 2 (below 4), payload_size 11
       SegHeader(MAGIC_NUMBER, 90000, ODS, 11) \o OdsPayload(1, 192, 2, <<>>),
       \* 14: Object, First fragment of a 4-byte bitmap: declared 4 + 4,
       \*     2 bytes carried here
       SegHeader(MAGIC_NUMBER, 90000, ODS, 13) \o OdsPayload(1, 128, 8, <<7, 9>>),
       \* 15: Object, Last fragment carrying the other 2 bytes
       SegHeader(MAGIC_NUMBER, 90000, ODS, 13) \o OdsPayload(1, 64, 8, <<9, 7>>),
       \* 16: End, 2000 ms
       SegHeader(MAGIC_NUMBER, 180000, END, 0),
       \* 17: a header without the magic marker
       SegHeader(<<80, 72>>, 90000, END, 0),
       \* 18: a header with an unknown type code
       SegHeader(MAGIC_NUMBER, 90000, 153, 0),
       \* 19: End, 90 * 1000 ticks
       SegHeader(MAGIC_NUMBER, 90000, END, 0),
       \* 20: End, 90 * 1000 + 89 ticks
       SegHeader(MAGIC_NUMBER, 90089, END, 0),
       \* 21: End, 0x7FFFFFFF ticks
       SegHeader(MAGIC_NUMBER, 2147483647, END, 0),
       \* 22: Composition with a plain and a cropped object,
       \*     payload_size 11 + 8 + 16
       SegHeader(MAGIC_NUMBER, 90000, PCS, 35) \o PcsPayload(128, <<0, 64>>),
       \* 23: Composition of two objects, the first with an illegal crop flag
       SegHeader(MAGIC_NUMBER, 90000, PCS, 27) \o PcsPayload(128, <<32, 0>>)
    >>

Files ==
    UNION { { Flatten([i \in 1..k |-> SegPool[s[i]]]) : s \in [1..k -> 1..Len(SegPool)] }
            : k \in 0..MaxSegs }

(***************************************************************************)
(* run: the segment loop                                                   *)
(***************************************************************************)
RunInit ==
    /\ file \in Files
    /\ pos = 0
    /\ pc = "header"
    /\ hdr = [pts |-> 0, dts |-> 0, type_code |-> 0, size |-> 0]
    /\ seg = [kind |-> "None"]
    /\ vobsub = <<>>
    /\ segments = <<>>
    /\ segment_count = 0
    /\ display_set_count = 0
    /\ result = "running"
    /\ err = NoError

RunIdle ==
    /\ file = <<>>
    /\ pos = 0
    /\ pc = "done"
    /\ hdr = [pts |-> 0, dts |-> 0, type_code |-> 0, size |-> 0]
    /\ seg = [kind |-> "None"]
    /\ vobsub = <<>>
    /\ segments = <<>>
    /\ segment_count = 0
    /\ display_set_count = 0
    /\ result = "Ok"
    /\ err = NoError

\* while stream_pos < file_size: the loop ends and run returns Ok(vobsub)
LoopExit ==
    /\ pc = "header"
    /\ ~(pos < Len(file))
    /\ pc' = "done"
    /\ result' = "Ok"
    /\ UNCHANGED <<file, pos, hdr, seg, vobsub, segments, segment_count,
                   display_set_count, err>>

\* let segment_header = read_header(&mut reader)?;
ReadHeader ==
    /\ pc = "header"
    /\ pos < Len(file)
    /\ LET r == read_header(file, pos) IN
       /\ pos' = r.pos
       /\ IF r.st = "Ok"
          THEN /\ hdr' = r.val
               /\ pc' = "payload"
               /\ UNCHANGED <<result, err>>
          ELSE /\ result' = r.st
               /\ err' = r.err
               /\ pc' = "done"
               /\ UNCHANGED hdr
    /\ UNCHANGED <<file, seg, vobsub, segments, segment_count, display_set_count>>

\* the tail of one loop iteration after a typed decoder returned r:
\* `?` on an error, else segments.push(segment_header), segment_count + 1
AfterDecode(r) ==
    /\ pos' = r.pos
    /\ IF r.st = "Ok"
       THEN /\ seg' = r.val
            /\ segments' = Append(segments, hdr)
            /\ segment_count' = segment_count + 1
            /\ pc' = "header"
            /\ UNCHANGED <<result, err>>
       ELSE /\ result' = r.st
            /\ err' = r.err
            /\ pc' = "done"
            /\ UNCHANGED <<seg, segments, segment_count>>
    /\ UNCHANGED <<file, hdr, vobsub, display_set_count>>

DoPcs ==
    /\ pc = "payload"
    /\ sg_type(hdr) = "Pcs"
    /\ AfterDecode(read_pcs(file, pos))

DoWds ==
    /\ pc = "payload"
    /\ sg_type(hdr) = "Wds"
    /\ AfterDecode(read_wds(file, pos))

DoPds ==
    /\ pc = "payload"
    /\ sg_type(hdr) = "Pds"
    /\ AfterDecode(read_pds(file, pos, hdr.size))

DoOds ==
    /\ pc = "payload"
    /\ sg_type(hdr) = "Ods"
    /\ AfterDecode(read_ods(file, pos, hdr.size))

DoEnd ==
    /\ pc = "payload"
    /\ sg_type(hdr) = "End"
    /\ display_set_count' = display_set_count + 1
    /\ vobsub' = Append(vobsub, end_time_span(hdr))
    /\ segments' = Append(segments, hdr)
    /\ segment_count' = segment_count + 1
    /\ pc' = "header"
    /\ UNCHANGED <<file, pos, hdr, seg, result, err>>

\* a type code that is none of the five: the dispatcher fails the run
DoInvalid ==
    /\ pc = "payload"
    /\ sg_type(hdr) = "Invalid"
    /\ result' = "Err"
    /\ err' = StringError("InvalidSegmentType")
    /\ pc' = "done"
    /\ UNCHANGED <<file, pos, hdr, seg, vobsub, segments, segment_count,
                   display_set_count>>

\* what the caller of run gets: Ok(vobsub) at the end of the loop, the error
\* of the first `?` that failed, and nothing at all after a panic
run_result ==
    CASE result = "Ok" -> [tag |-> "Ok", vobsub |-> vobsub]
      [] result = "Err" -> [tag |-> "Err", error |-> err]
      [] OTHER -> [tag |-> result]

RleIdle ==
    /\ data = <<>>
    /\ c = 0
    /\ output = <<>>
    /\ rle_pc = "done"

(***************************************************************************)
(* u24: a value is made by from_u32 or by From<[u8; 3]>, then read back by *)
(* to_u32.  The numbers are below 2^24, where from_u32's debug_assert      *)
(* holds.                                                                  *)
(***************************************************************************)
MaxU24 == 40

U24Numbers == 0..MaxU24 \cup {255, 256, 65535, 65536, 16777215}

U24Bytes == {0, 1, 255}

U24Sources ==
    {[kind |-> "u32", n |-> n, b |-> <<0, 0, 0>>] : n \in U24Numbers}
      \cup {[kind |-> "bytes", n |-> 0, b |-> b] : b \in [1..3 -> U24Bytes]}

U24Init ==
    /\ u24_src \in U24Sources
    /\ u24_val = <<0, 0, 0>>
    /\ u24_out = 0
    /\ u24_pc = "start"

U24Idle ==
    /\ u24_src = [kind |-> "bytes", n |-> 0, b |-> <<0, 0, 0>>]
    /\ u24_val = <<0, 0, 0>>
    /\ u24_out = 0
    /\ u24_pc = "read"

U24FromU32 ==
    /\ u24_pc = "start"
    /\ u24_src.kind = "u32"
    /\ u24_val' = from_u32(u24_src.n)
    /\ u24_pc' = "made"
    /\ UNCHANGED <<u24_src, u24_out>>

\* impl From<[u8; 3]> for u24
U24From ==
    /\ u24_pc = "start"
    /\ u24_src.kind = "bytes"
    /\ u24_val' = u24_src.b
    /\ u24_pc' = "made"
    /\ UNCHANGED <<u24_src, u24_out>>

U24ToU32 ==
    /\ u24_pc = "made"
    /\ u24_out' = to_u32(u24_val)
    /\ u24_pc' = "read"
    /\ UNCHANGED <<u24_src, u24_val>>

Init == RunInit /\ RleIdle /\ U24Idle

Next ==
    \/ LoopExit /\ UNCHANGED <<rleVars, u24Vars>>
    \/ ReadHeader /\ UNCHANGED <<rleVars, u24Vars>>
    \/ DoPcs /\ UNCHANGED <<rleVars, u24Vars>>
    \/ DoWds /\ UNCHANGED <<rleVars, u24Vars>>
    \/ DoPds /\ UNCHANGED <<rleVars, u24Vars>>
    \/ DoOds /\ UNCHANGED <<rleVars, u24Vars>>
    \/ DoEnd /\ UNCHANGED <<rleVars, u24Vars>>
    \/ DoInvalid /\ UNCHANGED <<rleVars, u24Vars>>

Spec == Init /\ [][Next]_vars

InitRle == RunIdle /\ RleInit /\ U24Idle

NextRle ==
    \/ RleBreak /\ UNCHANGED <<runVars, u24Vars>>
    \/ RleIter /\ UNCHANGED <<runVars, u24Vars>>

SpecRle == InitRle /\ [][NextRle]_vars

InitU24 == RunIdle /\ RleIdle /\ U24Init

NextU24 ==
    \/ U24FromU32 /\ UNCHANGED <<runVars, rleVars>>
    \/ U24From /\ UNCHANGED <<runVars, rleVars>>
    \/ U24ToU32 /\ UNCHANGED <<runVars, rleVars>>

SpecU24 == InitU24 /\ [][NextU24]_vars

(***************************************************************************)
(* Properties of the segment loop (specification Spec)                     *)
(***************************************************************************)

\* The aggregator of the design is in AwaitingEpoch initially and after
\* each End segment.
AwaitingEpoch == segments = <<>> \/ segments[Len(segments)].type_code = END

\* The End segments of f that arrive in InEpoch, following the framing the
\* headers declare from offset p on.
RECURSIVE EndsInEpoch(_, _, _)
EndsInEpoch(f, p, in_epoch) ==
    IF ~can_read(f, p, HEADER_LEN) THEN 0
    ELSE LET type_code == f[p + 11]
             size == u16_from_be_bytes(SubSeq(f, p + 12, p + 13))
             next == p + HEADER_LEN + size
         IN  IF type_code = END
             THEN (IF in_epoch THEN 1 ELSE 0) + EndsInEpoch(f, next, FALSE)
             ELSE IF type_code = PCS /\ can_read(f, p + HEADER_LEN, PCS_LEN)
                     /\ f[p + HEADER_LEN + 8] = 128
             THEN EndsInEpoch(f, next, TRUE)
             ELSE EndsInEpoch(f, next, in_epoch)

\* C1: for every stream run accepts, the number of display sets returned
\* equals the number of End segments met in InEpoch; an End segment outside
\* an epoch adds no display set.
C1_DisplaySetsPerEpochEnd ==
    result = "Ok" => Len(vobsub) = EndsInEpoch(file, 0, FALSE)

\* C2: an End segment, or a Composition segment whose composition_state is
\* not EpochStart, received in AwaitingEpoch fails the run with
\* UnexpectedSegment.
C2_UnexpectedSegment ==
    [][ ( /\ pc = "payload"
          /\ AwaitingEpoch
          /\ \/ hdr.type_code = END
             \/ /\ hdr.type_code = PCS
                /\ can_read(file, pos, hdr.size)
                /\ hdr.size >= PCS_LEN
                /\ file[pos + 8] \in {0, 64} )
        => ( /\ result' = "Err"
             /\ err'.msg = "UnexpectedSegment"
             /\ vobsub' = vobsub ) ]_vars

\* C3: a typed decoder that returns leaves the cursor at exactly
\* payload_start + payload_size.
C3_ExactPayloadConsumed ==
    [][ ( /\ pc = "payload"
          /\ hdr.type_code \in {PCS, WDS, PDS, ODS}
          /\ pc' = "header" )
        => pos' = pos + hdr.size ]_vars

\* An Object payload at p with sequence flag First, followed by an Object
\* segment of the same object_id with flag Last, the two bitmaps together
\* being declared_data_length - 4 bytes long.
FirstThenLast(f, p, h) ==
    /\ h.type_code = ODS
    /\ h.size >= ODS_HEADER
    /\ can_read(f, p, h.size + HEADER_LEN)
    /\ f[p + 4] = 128
    /\ LET q == p + h.size + HEADER_LEN
           size2 == u16_from_be_bytes(SubSeq(f, q - 1, q))
       IN  /\ SubSeq(f, p + h.size + 1, p + h.size + 2) = MAGIC_NUMBER
           /\ f[q - 2] = ODS
           /\ size2 >= ODS_HEADER
           /\ can_read(f, q, size2)
           /\ f[q + 4] = 64
           /\ SubSeq(f, q + 1, q + 2) = SubSeq(f, p + 1, p + 2)
           /\ (h.size - ODS_HEADER) + (size2 - ODS_HEADER)
                 = to_u32(SubSeq(f, p + 5, p + 7)) - 4

\* C4: a First fragment followed by its Last fragment is accepted, and the
\* Last fragment completes the object when the combined length is
\* declared_data_length - 4; a different combined length fails with
\* ArithmeticInconsistency.
C4_FragmentsAccepted ==
    [][ /\ (pc = "payload" /\ FirstThenLast(file, pos, hdr))
            => (result' = "running" /\ pos' = pos + hdr.size)
        /\ ( /\ pc = "payload"
             /\ hdr.type_code = ODS
             /\ can_read(file, pos, hdr.size)
             /\ hdr.size >= ODS_HEADER
             /\ file[pos + 4] = 64
             /\ seg.kind = "Ods"
             /\ seg.last_in_sequence_flag = 128
             /\ seg.object_id = u16_from_be_bytes(SubSeq(file, pos + 1, pos + 2)) )
            => IF seg.object_data_len + (hdr.size - ODS_HEADER)
                    = seg.object_data_lenght - 4
               THEN result' = "running" /\ pos' = pos + hdr.size
               ELSE result' = "Err" /\ err'.msg = "ArithmeticInconsistency" ]_vars

\* C5: a FirstAndLast Object segment decodes only when
\* declared_data_length - 4 = payload_size - 11; every other combination
\* is returned as an ArithmeticInconsistency error value.
C5_FirstAndLastLengths ==
    [][ ( /\ pc = "payload"
          /\ hdr.type_code = ODS
          /\ can_read(file, pos, ODS_HEADER)
          /\ file[pos + 4] = 192
          /\ (hdr.size < ODS_HEADER \/ can_read(file, pos, hdr.size)) )
        => IF to_u32(SubSeq(file, pos + 5, pos + 7)) - 4 = hdr.size - ODS_HEADER
           THEN result' = "running" /\ seg'.kind = "Ods"
           ELSE result' = "Err" /\ err'.msg = "ArithmeticInconsistency" ]_vars

\* C6: a Palette payload of 2 + 5k bytes decodes into k entries, entry i
\* being payload bytes 2+5i .. 2+5i+4; a payload of 2 + 5k + r bytes,
\* 0 < r < 5, is returned as an ArithmeticInconsistency error value.
C6_PaletteEntries ==
    [][ ( /\ pc = "payload"
          /\ hdr.type_code = PDS
          /\ hdr.size >= 2
          /\ can_read(file, pos, hdr.size) )
        => IF (hdr.size - 2) % 5 = 0
           THEN /\ result' = "running"
                /\ seg'.kind = "Pds"
                /\ Len(seg'.palette_entries) = (hdr.size - 2) \div 5
                /\ \A i \in 0..((hdr.size - 2) \div 5 - 1) :
                      seg'.palette_entries[i + 1]
                         = SubSeq(file, pos + 2 + 5 * i + 1, pos + 2 + 5 * i + 5)
           ELSE result' = "Err" /\ err'.msg = "ArithmeticInconsistency" ]_vars

\* C10: a 13-byte header without the magic marker fails with the
\* magic-number error, and the offset the error carries is the offset at
\* which that header starts.
C10_InvalidMagicOffset ==
    [][ ( /\ pc = "header"
          /\ can_read(file, pos, HEADER_LEN)
          /\ SubSeq(file, pos + 1, pos + 2) # MAGIC_NUMBER )
        => ( /\ result' = "Err"
             /\ err'.msg = "MAGIC_NUMBER missing"
             /\ err'.stream_pos = pos ) ]_vars

(***************************************************************************)
(* Properties of decode_rle (specification SpecRle)                        *)
(***************************************************************************)

\* C7: a non-zero byte at a unit boundary emits exactly one pixel whose
\* colour index is that byte, and consumes that one byte; [0x07] decodes
\* to [0x07].
C7_LiteralPixel ==
    [][ (rle_pc = "loop" /\ c < Len(data) /\ data[c + 1] # 0)
        => ( /\ rle_pc' = "loop"
             /\ c' = c + 1
             /\ output' = Append(output, data[c + 1]) ) ]_vars

\* The run unit 0x00 b1 ..: its size in bytes, and the length and colour
\* the format gives it.
RunUnitLen(b1) ==
    2 + (IF (b1 \div 64) % 2 = 1 THEN 1 ELSE 0) + (IF b1 >= 128 THEN 1 ELSE 0)

RunUnitAt(d, cur) ==
    /\ cur + 2 <= Len(d)
    /\ d[cur + 1] = 0
    /\ d[cur + 2] # 0
    /\ cur + RunUnitLen(d[cur + 2]) <= Len(d)

RunLength(d, cur) ==
    LET b1 == d[cur + 2] IN
    IF (b1 \div 64) % 2 = 0 THEN b1 % 64 ELSE (b1 % 64) * 256 + d[cur + 3]

RunColor(d, cur) ==
    LET b1 == d[cur + 2] IN
    IF b1 >= 128 THEN d[cur + RunUnitLen(b1)] ELSE 0

\* C8 as stated: a complete run unit decodes to L copies of C, and
\* [0x00,0xC5,0x09] gives five 9s, [0x00,0x41,0x02] gives 258 zeros.
C8_RunUnitAsStated ==
    /\ (rle_pc # "loop" /\ RunUnitAt(data, 0) /\ Len(data) = RunUnitLen(data[2]))
          => ( /\ rle_pc = "done"
               /\ output = Rep(RunLength(data, 0), RunColor(data, 0)) )
    /\ (rle_pc # "loop" /\ data = <<0, 197, 9>>)
          => (rle_pc = "done" /\ output = <<9, 9, 9, 9, 9>>)
    /\ (rle_pc # "loop" /\ data = <<0, 65, 2>>)
          => (rle_pc = "done" /\ output = Rep(258, 0))

\* C8, amended: every complete run unit 0x00 b1 (b1 # 0) met at a unit
\* boundary emits exactly L copies of C and consumes exactly its own bytes,
\* L = b1 & 0x3F with bit 6 clear and ((b1 & 0x3F) << 8) | b2 with bit 6
\* set, C the byte after the length byte(s) with bit 7 set and 0 otherwise;
\* [0x00,0x85,0x09] gives five 9s and [0x00,0x41,0x02] gives 258 zeros.
C8_RunUnit ==
    /\ [][ (rle_pc = "loop" /\ RunUnitAt(data, c))
           => ( /\ rle_pc' = "loop"
                /\ c' = c + RunUnitLen(data[c + 2])
                /\ output' = output \o Rep(RunLength(data, c), RunColor(data, c)) ) ]_vars
    /\ []( (rle_pc # "loop" /\ data = <<0, 133, 9>>)
           => (rle_pc = "done" /\ output = <<9, 9, 9, 9, 9>>) )
    /\ []( (rle_pc # "loop" /\ data = <<0, 65, 2>>)
           => (rle_pc = "done" /\ output = Rep(258, 0)) )

\* a long coloured run (0xC5: bits 7 and 6 set) of 0x0502 pixels was decoded
C8_LongColouredRunDecoded ==
    /\ rle_pc = "done"
    /\ data = <<0, 197, 2, 9>>
    /\ c = 4
    /\ Len(output) = 1282
    /\ output[1282] = 9

EolAt(d, cur) == cur + 2 <= Len(d) /\ d[cur + 1] = 0 /\ d[cur + 2] = 0

\* d without the two bytes at cursor position cur
WithoutUnit(d, cur) == SubSeq(d, 1, cur) \o SubSeq(d, cur + 3, Len(d))

Outcome(d) ==
    LET r == decode_rle(d, 0, <<>>) IN
    [st |-> r.st, output |-> IF r.st = "done" THEN r.output ELSE <<>>]

\* C9: the end-of-line marker 0x00 0x00, at whatever unit boundary it is
\* met, emits no pixel and advances the cursor by exactly 2 bytes; decoding
\* the input gives what decoding the input without that marker gives.
C9_EndOfLineMarker ==
    /\ [][ (rle_pc = "loop" /\ EolAt(data, c))
           => (rle_pc' = "loop" /\ c' = c + 2 /\ output' = output) ]_vars
    /\ []( (rle_pc = "loop" /\ EolAt(data, c))
           => Outcome(data) = Outcome(WithoutUnit(data, c)) )

\* a marker between two literal bytes was passed and decoding went on
C9_MarkerPassed ==
    /\ rle_pc = "done"
    /\ data = <<7, 0, 0, 9>>
    /\ c = 4
    /\ Len(output) = 2

(***************************************************************************)
(* Further properties of the segment loop (specification Spec)             *)
(***************************************************************************)

C12_PresentationTime ==
    [][ (pc = "payload" /\ hdr.type_code = END)
        => LET time == vobsub'[Len(vobsub')].start IN
           /\ Len(vobsub') = Len(vobsub) + 1
           /\ time >= 0
           /\ time <= hdr.pts
           /\ hdr.pts - time * 90 \in 0..89
           /\ hdr.pts = 90000 => time = 1000
           /\ hdr.pts = 90089 => time = 1000 ]_vars

\* the End segments of 90*1000+89 ticks and of 0x7FFFFFFF ticks were timed
C12_TruncatedTimes ==
    /\ Len(vobsub) = 2
    /\ segments[1].pts = 90089
    /\ vobsub[1].start = 1000
    /\ segments[2].pts = 2147483647
    /\ vobsub[2].start = 23860929

(***************************************************************************)
(* Properties of u24 (specification SpecU24)                               *)
(***************************************************************************)

\* C13: for every n < 2^24, from_u32(n).to_u32() = n; and for every 3-byte
\* value [a,b,c], u24::from([a,b,c]).to_u32() = a*65536 + b*256 + c, which
\* is below 2^24.
C13_U24RoundTrip ==
    u24_pc = "read"
    => /\ u24_src.kind = "u32" => u24_out = u24_src.n
       /\ u24_src.kind = "bytes"
             => /\ u24_out = u24_src.b[1] * 65536 + u24_src.b[2] * 256 + u24_src.b[3]
                /\ u24_out < 16777216

(***************************************************************************)
(* Further properties of the segment loop (specification Spec)             *)
(***************************************************************************)

\* C14: every decode failure in read_header or in a typed decoder ends the
\* run at that segment: no further segment is read, and the caller gets a
\* single error value and none of the display sets completed before.
C14_DecodeFailureFatal ==
    [][ /\ (pc # "done" /\ pc' = "done" /\ result' # "Ok")
           => ( /\ run_result'.tag = "Err"
                /\ DOMAIN run_result' = {"tag", "error"}
                /\ run_result'.error.kind # "none"
                /\ segments' = segments
                /\ vobsub' = vobsub )
        /\ pc = "done" => (pos' = pos /\ segments' = segments) ]_vars

\* The time spans of the display sets of f by the design: an EpochStart
\* Composition header opens an epoch and gives its start time, the next End
\* segment closes it and returns to AwaitingEpoch.
RECURSIVE EpochSpans(_, _, _, _)
EpochSpans(f, p, in_epoch, start) ==
    IF ~can_read(f, p, HEADER_LEN) THEN <<>>
    ELSE LET pts == u32_from_be_bytes(SubSeq(f, p + 3, p + 6))
             type_code == f[p + 11]
             size == u16_from_be_bytes(SubSeq(f, p + 12, p + 13))
             next == p + HEADER_LEN + size
         IN  IF type_code = END
             THEN (IF in_epoch THEN <<[start |-> start, end |-> start + 1000]>>
                   ELSE <<>>) \o EpochSpans(f, next, FALSE, 0)
             ELSE IF type_code = PCS /\ can_read(f, p + HEADER_LEN, PCS_LEN)
                     /\ f[p + HEADER_LEN + 8] = 128
             THEN EpochSpans(f, next, TRUE, pts \div 90)
             ELSE EpochSpans(f, next, in_epoch, start)

\* C15: each display set starts at the presentation time of the header of
\* the EpochStart Composition segment that opened its epoch, not of the End
\* segment that closes it, and ends the fixed placeholder duration later.
C15_StartFromEpochStart ==
    (result = "Ok" /\ Len(vobsub) = Len(EpochSpans(file, 0, FALSE, 0)))
    => vobsub = EpochSpans(file, 0, FALSE, 0)

\* Walking n composition-object records from offset p, a record being
\* `plain` bytes long with crop flag 0x00 and `cropped` bytes long with
\* 0x40: where the walk ends, and how.
RECURSIVE CompositionRecords(_, _, _, _, _)
CompositionRecords(f, p, n, plain, cropped) ==
    IF n = 0 THEN [end |-> "all", pos |-> p]
    ELSE IF ~can_read(f, p, plain) THEN [end |-> "short", pos |-> p]
    ELSE IF f[p + 4] = 0 THEN CompositionRecords(f, p + plain, n - 1, plain, cropped)
    ELSE IF f[p + 4] = 64
    THEN IF can_read(f, p, cropped)
         THEN CompositionRecords(f, p + cropped, n - 1, plain, cropped)
         ELSE [end |-> "short", pos |-> p]
    ELSE [end |-> "flag", pos |-> p + plain]

\* a Composition payload at offset p whose 11-byte prefix decodes
PcsPrefixAt(f, p) ==
    /\ can_read(f, p, 11)
    /\ f[p + 5] = 16
    /\ f[p + 8] \in {0, 64, 128}
    /\ f[p + 9] \in {0, 128}

\* what read_pcs does on records of the given sizes
PcsRecordsRead(plain, cropped) ==
    (pc = "payload" /\ hdr.type_code = PCS /\ PcsPrefixAt(file, pos))
    => LET w == CompositionRecords(file, pos + 11, file[pos + 11], plain, cropped) IN
       /\ w.end = "all"
             => /\ result' = "running"
                /\ pos' = w.pos
                /\ Len(seg'.composition_objects) = file[pos + 11]
       /\ w.end = "flag"
             => /\ result' = "Err"
                /\ err'.msg = "TODO object_cropped_flag"
                /\ pos' = w.pos

\* C16 as stated: read_pcs reads the 11-byte prefix and then exactly count
\* records, of 10 bytes with crop flag 0x00 and 18 bytes with 0x40; any
\* other crop flag fails the decode and no further record is read.
C16_RecordsAsStated == [][PcsRecordsRead(10, 18)]_vars

\* C16, amended: the records are 8 bytes long with crop flag 0x00 and 16
\* bytes long with 0x40.
C16_CompositionRecords == [][PcsRecordsRead(8, 16)]_vars

\* a Composition with a plain and a cropped record was decoded: 11 + 8 + 16
C16_TwoRecordsDecoded ==
    /\ pc = "header"
    /\ seg.kind = "Pcs"
    /\ Len(seg.composition_objects) = 2
    /\ seg.composition_objects[1].object_cropped_flag = 0
    /\ seg.composition_objects[2].object_cropped_flag = 64
    /\ pos = 13 + 35

\* C17: decode_rle returns normally on every finite byte sequence: no read
\* is attempted at or past the end of the input, also when the input ends
\* in the middle of a unit, and the cursor strictly increases on every
\* iteration of the loop.
C17_DecodeReturnsNormally ==
    /\ [](rle_pc # "panic")
    /\ [][ (rle_pc = "loop" /\ c < Len(data))
           => (rle_pc' \in {"loop", "done"} /\ c' > c /\ c' <= Len(data)) ]_vars

====
